---- MODULE Spec2Model ----
(***************************************************************************)
(* One run of the system health monitor: main() builds a HealthCollector,  *)
(* the collector samples metrics, processes and network in that order, and *)
(* HealthLogger.write_log renders the document and writes it to a file.    *)
(*                                                                         *)
(* The operating system (psutil) is the environment.  What it reports is   *)
(* drawn in the initial state: the process table, the connection table,    *)
(* the partition list, each item with the fault its read raises, if any.   *)
(*                                                                         *)
(* Numbers.  Percentages are integers in thousandths of a percent point    *)
(* (1004 is 1.004 %).  Python's None is the number None, the string "N/A"  *)
(* standing for a port or a pid is the number NA; every real pid, port and *)
(* percentage of the model is >= 0.  A type string is a sequence of        *)
(* characters so that the substring tests are computed, not assumed.       *)
(***************************************************************************)
EXTENDS Integers, Sequences, FiniteSets, TLC

VARIABLES
    pc,           \* where the run is: the next step of main()/run()/collect_all()
    top_n,        \* HealthCollector.top_processes
    include_all,  \* HealthCollector.include_all_connections
    format,       \* the format argument, HealthLogger.format once constructed
    console,      \* OS: what sys.stdout is attached to and how it is buffered
    procTable,    \* OS: what psutil.process_iter yields, in order; pid = position
    procTableMem, \* OS: what it yields to the ranking by memory
    procTableCpu, \* OS: what it yields to the ranking by cpu
    connFault,    \* OS: what psutil.net_connections raises as a whole, or "none"
    connTable,    \* OS: what psutil.net_connections returns, in order
    connTableAll, \* OS: what it returns to the all_connections enumeration
    partitions,   \* OS: what psutil.disk_partitions returns, in order
    metrics,      \* collect_all's local: the metrics document (its disk map)
    processes,    \* collect_all's local: the process report
    network,      \* collect_all's local: the network report
    stdout,       \* the phases narrated on the console so far, in order
    file,         \* the file at the generated path
    raised,       \* the exception that reached main(), or "none"
    traceback,    \* the function that raised it, "" when none
    outside_try,  \* it was raised outside the try block of main()
    in_handler,   \* what was raised while main() handled it, or "none"
    exit_code     \* the status the process ends with, NoExit while it runs

vars == <<pc, top_n, include_all, format, console, procTable, procTableMem,
          procTableCpu, connFault, connTable, connTableAll, partitions, metrics, processes, network, stdout, file, raised,
          traceback, outside_try, in_handler, exit_code>>

\* ------------------------------------------------------------------ bounds
MaxProcs == 3
MaxConns == 3
MaxParts == 3
MaxTopN == 2

\* ------------------------------------------------------- values of Python
\* None, as a number below every real value of the model.
None == -1
\* The sentinel "N/A" where a number is expected (port, pid).
NA == -2
\* main() has not returned yet.
NoExit == -3
\* The process was killed by SIGINT (signal 2), as a parent reads it: the
\* interpreter does this to itself when a KeyboardInterrupt is not caught.
KilledBySigint == -2

\* x or 0.0
OrZero(x) == IF x = None \/ x = 0 THEN 0 ELSE x

\* bool(x) for an int or None
Truthy(x) == x # None /\ x # 0

\* round(x, 2) on thousandths: to the nearest hundredth.  The inputs of the
\* model never end in 5, where the float's binary value decides.
Round2(x) == ((x + 5) \div 10) * 10

Min(a, b) == IF a <= b THEN a ELSE b

\* seq[:n] for n >= 0
Prefix(seq, n) == SubSeq(seq, 1, Min(n, Len(seq)))

\* needle in hay, for strings as character sequences
Contains(needle, hay) ==
    \E i \in 1..(Len(hay) - Len(needle) + 1) :
        SubSeq(hay, i, i + Len(needle) - 1) = needle

\* isinstance(exc, cls) for the exception classes the code names.  The
\* hierarchy is that of Python (PermissionError, FileNotFoundError are
\* OSErrors, everything but KeyboardInterrupt and SystemExit is an
\* Exception) and of psutil (ZombieProcess is a NoSuchProcess).
IsInstance(exc, cls) ==
    \/ exc = cls
    \/ cls = "OSError"
       /\ exc \in {"PermissionError", "FileNotFoundError", "BrokenPipeError"}
    \/ cls = "NoSuchProcess" /\ exc = "ZombieProcess"
    \/ cls = "Exception"
       /\ exc \notin {"none", "KeyboardInterrupt", "SystemExit(2)", "SystemExit(0)"}

\* an except clause naming the classes of handlers catches exc
Catches(handlers, exc) == \E cls \in handlers : IsInstance(exc, cls)

\* ------------------------------------------------------ processes.py
\* pinfo['name'] when psutil gives None for it.  Names are sequences of
\* characters; this one holds a single element that is no character.
NoName == <<"None">>

\* the record enumerate_processes appends for the process at position pid
ProcRecord(pid, pinfo) ==
    [pid            |-> pid,
     name           |-> pinfo.name,
     status         |-> pinfo.status,
     cpu_percent    |-> OrZero(pinfo.cpu_percent),
     memory_percent |-> Round2(OrZero(pinfo.memory_percent))]

\* except (psutil.NoSuchProcess, psutil.AccessDenied, psutil.ZombieProcess)
EnumerateHandlers == {"NoSuchProcess", "AccessDenied", "ZombieProcess"}

\* except (psutil.NoSuchProcess, psutil.AccessDenied)
SummaryHandlers == {"NoSuchProcess", "AccessDenied"}

\* the loop of enumerate_processes: the records of the processes whose read
\* does not fault, in enumeration order
RECURSIVE ReadProcesses(_, _)
ReadProcesses(table, i) ==
    IF i > Len(table) THEN <<>>
    ELSE IF table[i].fault = "none"
         THEN <<ProcRecord(i, table[i])>> \o ReadProcesses(table, i + 1)
         ELSE ReadProcesses(table, i + 1)

\* the first fault of the table that the handlers do not catch, or "none"
RECURSIVE Uncaught(_, _, _)
Uncaught(table, handlers, i) ==
    IF i > Len(table) THEN "none"
    ELSE IF table[i].fault # "none" /\ ~Catches(handlers, table[i].fault)
         THEN table[i].fault
         ELSE Uncaught(table, handlers, i + 1)

\* mutant of InsertDesc: x goes before the first element whose key is not
\* greater, which reverses the order of equal keys
RECURSIVE InsertDesc_Unstable(_, _, _)
InsertDesc_Unstable(sorted, x, key) ==
    IF sorted = <<>> THEN <<x>>
    ELSE IF Head(sorted)[key] <= x[key]
         THEN <<x>> \o sorted
         ELSE <<Head(sorted)>> \o InsertDesc_Unstable(Tail(sorted), x, key)

\* list.sort(key=lambda x: x[key], reverse=True): x goes before the first
\* element whose key is smaller, so equal keys keep their order
RECURSIVE InsertDesc(_, _, _)
InsertDesc(sorted, x, key) ==
    IF sorted = <<>> THEN <<x>>
    ELSE IF Head(sorted)[key] < x[key]
         THEN <<x>> \o sorted
         ELSE <<Head(sorted)>> \o InsertDesc(Tail(sorted), x, key)

RECURSIVE SortDesc(_, _, _)
SortDesc(seq, key, n) ==
    IF n = 0 THEN <<>>
    ELSE InsertDesc(SortDesc(seq, key, n - 1), seq[n], key)

\* mutant of InsertAsc: x goes before the first element whose key is not
\* smaller, which reverses the order of equal keys
RECURSIVE InsertAsc_Unstable(_, _, _)
InsertAsc_Unstable(sorted, x, key) ==
    IF sorted = <<>> THEN <<x>>
    ELSE IF Head(sorted)[key] >= x[key]
         THEN <<x>> \o sorted
         ELSE <<Head(sorted)>> \o InsertAsc_Unstable(Tail(sorted), x, key)

\* sorted(..., key=lambda x: x[key]): x goes before the first element whose
\* key is greater
RECURSIVE InsertAsc(_, _, _)
InsertAsc(sorted, x, key) ==
    IF sorted = <<>> THEN <<x>>
    ELSE IF Head(sorted)[key] > x[key]
         THEN <<x>> \o sorted
         ELSE <<Head(sorted)>> \o InsertAsc(Tail(sorted), x, key)

RECURSIVE SortAsc(_, _, _)
SortAsc(seq, key, n) ==
    IF n = 0 THEN <<>>
    ELSE InsertAsc(SortAsc(seq, key, n - 1), seq[n], key)

\* the key the sort_by argument selects
SortKey(sort_by) ==
    CASE sort_by = "memory" -> "memory_percent"
      [] sort_by = "cpu"    -> "cpu_percent"
      [] sort_by = "pid"    -> "pid"
      [] sort_by = "name"   -> "name"
      [] OTHER              -> ""

\* str.lower() on one character of the names of the model
LowerChar(c) ==
    CASE c = "A" -> "a"
      [] c = "B" -> "b"
      [] c = "C" -> "c"
      [] OTHER   -> c

\* ord(c) for the lower-case characters of the names of the model
Ord(c) ==
    CASE c = "a" -> 97
      [] c = "b" -> 98
      [] c = "c" -> 99
      [] OTHER   -> 0

\* a.lower() < b.lower() for names as character sequences: the first
\* differing character decides, a proper prefix is smaller
RECURSIVE NameBefore(_, _)
NameBefore(a, b) ==
    IF b = <<>> THEN FALSE
    ELSE IF a = <<>> THEN TRUE
    ELSE IF Ord(LowerChar(Head(a))) # Ord(LowerChar(Head(b)))
         THEN Ord(LowerChar(Head(a))) < Ord(LowerChar(Head(b)))
         ELSE NameBefore(Tail(a), Tail(b))

\* list.sort(key=lambda x: x["name"].lower()): x goes before the first
\* element whose lower-cased name is greater
RECURSIVE InsertByName(_, _)
InsertByName(sorted, x) ==
    IF sorted = <<>> THEN <<x>>
    ELSE IF NameBefore(x.name, Head(sorted).name)
         THEN <<x>> \o sorted
         ELSE <<Head(sorted)>> \o InsertByName(Tail(sorted), x)

RECURSIVE SortByName(_, _)
SortByName(seq, n) ==
    IF n = 0 THEN <<>>
    ELSE InsertByName(SortByName(seq, n - 1), seq[n])

\* the if/elif chain of enumerate_processes: descending by memory or cpu,
\* ascending by pid or name, the enumeration order for any other sort_by
SortProcesses(procs, sort_by) ==
    CASE sort_by \in {"memory", "cpu"} -> SortDesc(procs, SortKey(sort_by), Len(procs))
      [] sort_by = "pid"               -> SortAsc(procs, SortKey(sort_by), Len(procs))
      [] sort_by = "name"              -> SortByName(procs, Len(procs))
      [] OTHER                         -> procs

\* the exception the sort lets through, or "none": None has no lower()
SortRaises(procs, sort_by) ==
    IF sort_by = "name" /\ \E i \in 1..Len(procs) : procs[i].name = NoName
    THEN "AttributeError"
    ELSE "none"

\* if limit: processes = processes[:limit]
ApplyLimit(procs, limit) ==
    IF Truthy(limit) THEN Prefix(procs, limit) ELSE procs

enumerate_processes(table, sort_by, limit) ==
    LET read == ReadProcesses(table, 1)
    IN  ApplyLimit(SortProcesses(read, sort_by), limit)

\* status_count as get_process_summary initialises it
StatusKeys == {"running", "sleeping", "stopped", "zombie", "other"}

\* mutant of CountStatus: a status that is no key is not counted
CountStatus_DropUnknown(status_count, status) ==
    IF status \in DOMAIN status_count
    THEN [status_count EXCEPT ![status] = @ + 1]
    ELSE status_count

\* one turn of the loop of get_process_summary
CountStatus(status_count, status) ==
    IF status \in DOMAIN status_count
    THEN [status_count EXCEPT ![status] = @ + 1]
    ELSE [status_count EXCEPT !["other"] = @ + 1]

RECURSIVE CountAll(_, _)
CountAll(table, n) ==
    IF n = 0 THEN [k \in StatusKeys |-> 0]
    ELSE IF table[n].fault = "none"
         THEN CountStatus(CountAll(table, n - 1), table[n].status)
         ELSE CountAll(table, n - 1)

RECURSIVE SumOver(_, _)
SumOver(f, keys) ==
    IF keys = {} THEN 0
    ELSE LET k == CHOOSE x \in keys : TRUE
         IN  f[k] + SumOver(f, keys \ {k})

get_process_summary(table) ==
    LET status_count == CountAll(table, Len(table))
    IN  [total_processes |-> SumOver(status_count, DOMAIN status_count),
         running  |-> status_count["running"],
         sleeping |-> status_count["sleeping"],
         stopped  |-> status_count["stopped"],
         zombie   |-> status_count["zombie"],
         other    |-> status_count["other"]]

\* three calls, each its own psutil.process_iter: table is what the summary
\* is yielded, tableMem and tableCpu what the two rankings are
collect_process_info(table, tableMem, tableCpu, n) ==
    [summary                 |-> get_process_summary(table),
     top_processes_by_memory |-> enumerate_processes(tableMem, "memory", n),
     top_processes_by_cpu    |-> enumerate_processes(tableCpu, "cpu", n)]

\* the exception collect_process_info lets through, or "none"
ProcessInfoRaises(table, tableMem, tableCpu) ==
    IF Uncaught(table, SummaryHandlers, 1) # "none"
    THEN Uncaught(table, SummaryHandlers, 1)
    ELSE IF Uncaught(tableMem, EnumerateHandlers, 1) # "none"
    THEN Uncaught(tableMem, EnumerateHandlers, 1)
    ELSE Uncaught(tableCpu, EnumerateHandlers, 1)

\* the function the exception collect_process_info lets through is raised
\* in: the summary pass, or one of the two ranking passes
ProcessInfoRaisedIn(table) ==
    IF Uncaught(table, SummaryHandlers, 1) # "none"
    THEN "get_process_summary"
    ELSE "enumerate_processes"

\* ------------------------------------------------------ network.py
\* the needles of the protocol test
STREAM == <<"S", "T", "R", "E", "A", "M">>
DGRAM == <<"D", "G", "R", "A", "M">>

\* str(conn.type): "SocketKind.SOCK_STREAM" and the like up to Python 3.10,
\* the enum's number from Python 3.11 on
SOCK_STREAM ==
    <<"S", "o", "c", "k", "e", "t", "K", "i", "n", "d", ".",
      "S", "O", "C", "K", "_", "S", "T", "R", "E", "A", "M">>
SOCK_DGRAM ==
    <<"S", "o", "c", "k", "e", "t", "K", "i", "n", "d", ".",
      "S", "O", "C", "K", "_", "D", "G", "R", "A", "M">>
SOCK_RAW ==
    <<"S", "o", "c", "k", "e", "t", "K", "i", "n", "d", ".",
      "S", "O", "C", "K", "_", "R", "A", "W">>
INT_STREAM == <<"1">>
INT_DGRAM == <<"2">>
\* a type string holding both needles, to tell the if from the elif
DGRAM_STREAM ==
    <<"D", "G", "R", "A", "M", "|", "S", "T", "R", "E", "A", "M">>

\* a dict with no key
EmptyDict == [k \in {} |-> 0]

\* d[k] += 1 on a defaultdict(int)
Incr(d, k) ==
    IF k \in DOMAIN d THEN [d EXCEPT ![k] = @ + 1] ELSE d @@ (k :> 1)

\* the record collect_network_connections appends for one connection;
\* laddr is <<>> or <<ip, port>>
ConnRecord(conn) ==
    [type          |-> conn.type,
     local_address |-> IF conn.laddr # <<>> THEN conn.laddr[1] ELSE "N/A",
     local_port    |-> IF conn.laddr # <<>> THEN conn.laddr[2] ELSE NA,
     status        |-> conn.status,
     pid           |-> IF Truthy(conn.pid) THEN conn.pid ELSE NA]

\* the inner except (AttributeError, psutil.AccessDenied)
ConnHandlers == {"AttributeError", "AccessDenied"}

\* mutant of EnumHandlers: the enumeration is not guarded
EnumHandlers_None == {}

\* the outer except psutil.AccessDenied
EnumHandlers == {"AccessDenied"}

RECURSIVE ReadConnections(_, _)
ReadConnections(table, i) ==
    IF i > Len(table) THEN <<>>
    ELSE IF table[i].fault = "none"
         THEN <<ConnRecord(table[i])>> \o ReadConnections(table, i + 1)
         ELSE ReadConnections(table, i + 1)

\* fault is what psutil.net_connections raises, "none" when it returns table
collect_network_connections(fault, table) ==
    IF fault # "none" THEN <<>> ELSE ReadConnections(table, 1)

\* the exception collect_network_connections lets through, or "none"
ConnectionsRaises(fault, table) ==
    IF fault # "none"
    THEN IF Catches(EnumHandlers, fault) THEN "none" ELSE fault
    ELSE Uncaught(table, ConnHandlers, 1)

\* mutant of Protocol: the two tests in the other order
Protocol_DgramFirst(type) ==
    IF Contains(DGRAM, type) THEN "UDP"
    ELSE IF Contains(STREAM, type) THEN "TCP"
    ELSE ""

\* the protocol get_network_summary counts a type string under, "" for none
Protocol(type) ==
    IF Contains(STREAM, type) THEN "TCP"
    ELSE IF Contains(DGRAM, type) THEN "UDP"
    ELSE ""

\* mutant of IsListening: the port is not looked at
IsListening_AnyPort(conn) == conn.status = "LISTEN"

\* the test that lets a connection into listening_ports
IsListening(conn) == conn.status = "LISTEN" /\ conn.local_port # NA

ListenEntry(conn) ==
    [port |-> conn.local_port, address |-> conn.local_address, pid |-> conn.pid]

\* the loop of get_network_summary over connections[1..n]
RECURSIVE SummaryLoop(_, _)
SummaryLoop(connections, n) ==
    IF n = 0
    THEN [status_count |-> EmptyDict, protocol_count |-> EmptyDict,
          listening_ports |-> <<>>]
    ELSE LET acc  == SummaryLoop(connections, n - 1)
             conn == connections[n]
         IN  [status_count    |-> Incr(acc.status_count, conn.status),
              protocol_count  |->
                  IF Protocol(conn.type) # ""
                  THEN Incr(acc.protocol_count, Protocol(conn.type))
                  ELSE acc.protocol_count,
              listening_ports |->
                  IF IsListening(conn)
                  THEN Append(acc.listening_ports, ListenEntry(conn))
                  ELSE acc.listening_ports]

get_network_summary(fault, table) ==
    LET connections == collect_network_connections(fault, table)
        acc == SummaryLoop(connections, Len(connections))
    IN  [total_connections |-> Len(connections),
         by_status         |-> acc.status_count,
         by_protocol       |-> acc.protocol_count,
         listening_ports   |->
             SortAsc(acc.listening_ports, "port", Len(acc.listening_ports))]

\* what the three interface queries of psutil answer: the interface names
\* of net_if_addrs, the isup flag net_if_stats holds per interface (none for
\* eth0, wlan0 is down) and the interface names of net_io_counters;
\* is_up starts False and is copied from stat.isup when the name has stats
IfAddrs == {"lo", "eth0", "wlan0"}
IfStats == [lo |-> [isup |-> TRUE], wlan0 |-> [isup |-> FALSE]]
IfCounters == {"eth0"}

collect_network_interfaces ==
    [name \in IfAddrs |->
        [is_up        |-> IF name \in DOMAIN IfStats THEN IfStats[name].isup
                          ELSE FALSE,
         has_io_stats |-> name \in IfCounters]]

\* info["all_connections"] is set only when include_all_connections; the
\* model keeps the key and an empty list when it is not
\* get_network_summary makes its own call of collect_network_connections:
\* table is what psutil.net_connections returns to it, tableAll what it
\* returns to the call that fills all_connections
collect_network_info(include, fault, table, tableAll) ==
    [summary         |-> get_network_summary(fault, table),
     interfaces      |-> collect_network_interfaces,
     all_connections |->
         IF include THEN collect_network_connections(fault, tableAll) ELSE <<>>]

\* the exception collect_network_info lets through, or "none"
NetworkInfoRaises(include, fault, table, tableAll) ==
    IF ConnectionsRaises(fault, table) # "none"
    THEN ConnectionsRaises(fault, table)
    ELSE IF include THEN ConnectionsRaises(fault, tableAll) ELSE "none"

\* ------------------------------------------------------ metrics.py
\* mutant of DiskHandlers: only the permission fault is caught
DiskHandlers_PermissionOnly == {"PermissionError"}

\* except (PermissionError, OSError)
DiskHandlers == {"PermissionError", "OSError"}

\* the loop of collect_disk_metrics over partitions[1..n]; the entry of a
\* mountpoint names the partition whose usage it holds
RECURSIVE DiskLoop(_, _)
DiskLoop(parts, n) ==
    IF n = 0 THEN EmptyDict
    ELSE LET disk_info == DiskLoop(parts, n - 1)
         IN  IF parts[n].fault = "none"
             THEN IF parts[n].mountpoint \in DOMAIN disk_info
                  THEN [disk_info EXCEPT ![parts[n].mountpoint] = n]
                  ELSE disk_info @@ (parts[n].mountpoint :> n)
             ELSE disk_info

collect_disk_metrics(parts) == DiskLoop(parts, Len(parts))

\* the exception collect_disk_metrics lets through, or "none"
DiskRaises(parts) == Uncaught(parts, DiskHandlers, 1)

\* the cpu and memory samples are read from psutil and copied; the model
\* keeps the disk map
collect_all_metrics(parts) == [disk |-> collect_disk_metrics(parts)]

\* ------------------------------------------------------ logger.py
\* str.lower() on the format strings of the model
Lower(s) ==
    CASE s = "JSON" -> "json"
      [] s = "Text" -> "text"
      [] s = "YAML" -> "yaml"
      [] OTHER      -> s

\* mutant of Extension: "log" for the text format, "json" for any other
Extension_LogForTextOnly(fmt) == IF fmt = "text" THEN "log" ELSE "json"

\* the extension generate_filename picks
Extension(fmt) == IF fmt = "json" THEN "json" ELSE "log"

\* the branch write_log takes to render the document
Serializer(fmt) == IF fmt = "json" THEN "format_json" ELSE "format_text"

\* no file at the path
NoFile == [state |-> "absent", ext |-> "", serializer |-> ""]

\* a report an earlier run left at the same path within the same second
OldFile(fmt) ==
    [state |-> "old", ext |-> Extension(Lower(fmt)),
     serializer |-> Serializer(Lower(fmt))]

\* the rows of the memory ranking that format_text prints
TextTopRows == 10

\* the exception the serializer raises, or "none": format_text slices the
\* name of each row it prints, and None cannot be sliced; format_json
\* renders None as null
RenderRaises(fmt, procs) ==
    IF fmt # "json"
       /\ \E i \in 1..Min(TextTopRows, Len(procs.top_processes_by_memory)) :
              procs.top_processes_by_memory[i].name = NoName
    THEN "TypeError"
    ELSE "none"

\* The ways write_log ends.  at: the statement that raises ("none": it
\* returns; "format": the serializer; "filename": generate_filename;
\* "open": open() or another statement of write_log ahead of it; in all
\* three the file is not touched; "write": f.write or the closing flush;
\* "close": after f.write returned, the with block closes the file); exc:
\* what it raises; left: what the file holds afterwards, for a failed
\* write nothing or a proper prefix of the content.
WriteOutcomes ==
    {[at |-> "none", exc |-> "none", left |-> "complete"]}
    \cup [at : {"format"}, exc : {"TypeError", "KeyboardInterrupt"},
          left : {"untouched"}]
    \cup [at : {"filename"}, exc : {"KeyboardInterrupt"}, left : {"untouched"}]
    \cup [at : {"open"}, exc : {"PermissionError", "OSError", "KeyboardInterrupt"},
          left : {"untouched"}]
    \cup [at : {"write"}, exc : {"OSError", "KeyboardInterrupt"},
          left : {"empty", "truncated"}]
    \cup [at : {"close"}, exc : {"KeyboardInterrupt"}, left : {"complete"}]

\* the ways write_log ends when the serializer raises render ("none": it
\* returns the content): a serializer that raises is as far as write_log
\* gets, unless an interrupt comes first
WriteOutcomesAfter(render) ==
    IF render = "none"
    THEN {o \in WriteOutcomes : o.at = "format" => o.exc = "KeyboardInterrupt"}
    ELSE {o \in WriteOutcomes :
            (o.at = "format" /\ o.exc \in {render, "KeyboardInterrupt"})
            \/ (o.at = "open" /\ o.exc = "KeyboardInterrupt")}

\* the function an outcome of write_log is raised in
RaisedIn(o, fmt) ==
    CASE o.at = "format"   -> Serializer(fmt)
      [] o.at = "filename" -> "generate_filename"
      [] OTHER             -> "write_log"

\* the file at the path after write_log ended with outcome o: open(filepath,
\* 'w') creates or truncates it, f.write fills it
FileAfter(f, fmt, o) ==
    IF o.at \in {"format", "filename", "open"} THEN f
    ELSE [state |-> o.left, ext |-> Extension(fmt), serializer |-> Serializer(fmt)]

\* ------------------------------------------------------ monitor.py
\* mutant of main_handler: no clause for KeyboardInterrupt
main_handler_NoInterruptClause(exc) ==
    IF IsInstance(exc, "PermissionError") THEN 1
    ELSE IF IsInstance(exc, "Exception") THEN 1
    ELSE NoExit

\* the value main() returns when exc reaches it, NoExit when no except
\* clause of main() catches exc
main_handler(exc) ==
    IF exc = "KeyboardInterrupt" THEN 130
    ELSE IF IsInstance(exc, "PermissionError") THEN 1
    ELSE IF IsInstance(exc, "Exception") THEN 1
    ELSE NoExit

\* the status of the process when exc leaves main(): the code a SystemExit
\* carries (argparse: 2 for a rejected command line, 0 after --help or
\* --version), death by SIGINT for a KeyboardInterrupt, 1 after the
\* interpreter's traceback for anything else
UncaughtStatus(exc) ==
    CASE exc = "SystemExit(2)"     -> 2
      [] exc = "SystemExit(0)"     -> 0
      [] exc = "KeyboardInterrupt" -> KilledBySigint
      [] OTHER                     -> 1

\* sys.exit(main()): the status the interpreter is asked to end with
ExitStatus(exc) ==
    IF exc = "none" THEN 0
    ELSE IF main_handler(exc) # NoExit THEN main_handler(exc)
    ELSE UncaughtStatus(exc)

\* What sys.stdout can be: "writable"; "full", block-buffered and attached
\* to something that takes no data (/dev/full, a pipe nobody reads), where
\* every print succeeds and the flush at interpreter exit fails; "broken",
\* unbuffered and attached to a pipe whose reader may go away, where a
\* print may raise.
Consoles == {"writable", "full", "broken"}

\* the functions that run before run() has printed anything
BeforeBanner ==
    {"<module>", "main", "parse_arguments", "HealthCollector.__init__",
     "HealthLogger.__init__"}

\* something was written to sys.stdout before the process ends with exc
\* raised in where: run() opens with a print, main() prints on an
\* interrupt, argparse prints the help and the version; a rejected command
\* line and a failing HealthLogger.__init__ only write to stderr
WroteStdout(exc, where) ==
    \/ exc \in {"none", "KeyboardInterrupt", "SystemExit(0)"}
    \/ where \notin BeforeBanner

\* What can be raised inside the except clause of main() that handles
\* exc: nothing; a second interrupt; on a broken stdout the print of the
\* interrupt clause.  No clause of main() runs for an exception raised
\* outside its try: at module level, or on entry of main() before the try
\* statement is reached.
HandlerOutcomes(exc, outside, con) ==
    IF outside \/ main_handler(exc) = NoExit THEN {"none"}
    ELSE {"none", "KeyboardInterrupt"}
         \cup (IF exc = "KeyboardInterrupt" /\ con = "broken"
               THEN {"BrokenPipeError"} ELSE {})

\* The status the process ends with when exc was raised in where, outside
\* the try of main() or inside it, and second inside the except clause that
\* handled it.  An exception raised outside the try or inside an except
\* clause leaves the program uncaught; otherwise the interpreter ends with
\* what sys.exit(main()) asks for, or with 120 when the flush of stdout at
\* exit fails.
ProcessStatus(exc, where, outside, con, second) ==
    IF outside THEN UncaughtStatus(exc)
    ELSE IF second # "none" THEN UncaughtStatus(second)
    ELSE IF con = "full" /\ WroteStdout(exc, where) THEN 120
    ELSE ExitStatus(exc)

\* The ways the program gets to collector.run().  Inside the try of main():
\* parse_arguments() may end in argparse's SystemExit, HealthLogger.__init__'s
\* mkdir may fail, and an interrupt may come in any of the functions.
\* Outside it: an interrupt at module level, during the imports or at the
\* call of main(), or on entry of main(), before its try; an interrupt that
\* lands in a __set_name__ hook while an imported module creates a class is
\* re-raised by the interpreter as RuntimeError, at module level.
ConstructOutcomes ==
    {[exc |-> "none", where |-> "", outside |-> FALSE]}
    \cup [exc : {"SystemExit(2)", "SystemExit(0)"}, where : {"parse_arguments"},
          outside : {FALSE}]
    \cup [exc : {"KeyboardInterrupt"}, where : BeforeBanner \ {"<module>"},
          outside : {FALSE}]
    \cup [exc : {"PermissionError", "OSError"}, where : {"HealthLogger.__init__"},
          outside : {FALSE}]
    \cup [exc : {"KeyboardInterrupt"}, where : {"<module>", "main"},
          outside : {TRUE}]
    \cup [exc : {"RuntimeError"}, where : {"<module>"}, outside : {TRUE}]

\* ------------------------------------------------------ collector.py
\* mutant of AfterProcesses: the report is written before the network is
\* collected
AfterProcesses_SkipNetwork == "write_log"

\* the step after each collector of collect_all, and after collect_all
AfterMetrics == "collect_processes"
AfterProcesses == "collect_network"
AfterNetwork == "write_log"
AfterWrite == "finish"

\* what collect_all and run print before each step
PhaseOf(p) ==
    CASE p = "collect_metrics"   -> "metrics"
      [] p = "collect_processes" -> "processes"
      [] p = "collect_network"   -> "network"
      [] p = "write_log"         -> "write"

\* exceptions a psutil call raises where no try block guards it
Unguarded == {"RuntimeError", "PermissionError"}

\* Where a step can end other than by the faults of the OS tables: an
\* interrupt at the print that opens the step (printed: the line is out),
\* at run()'s banner, or in any function of the collector; a print that
\* raises on a broken stdout; a failure of a psutil call that no try block
\* guards (cpu_percent, virtual_memory, disk_partitions, process_iter in
\* each of the three enumerations, net_if_addrs and the like).
AbortPoints(p) ==
    [exc : {"KeyboardInterrupt"},
     where : {IF p = "write_log" THEN "run" ELSE "collect_all"},
     printed : BOOLEAN]
    \cup
    [exc : {"BrokenPipeError"},
     where : {IF p = "write_log" THEN "run" ELSE "collect_all"},
     printed : {FALSE}]
    \cup
    CASE p = "collect_metrics" ->
           [exc : {"KeyboardInterrupt", "BrokenPipeError"}, where : {"run"},
            printed : {FALSE}]
           \cup [exc : {"KeyboardInterrupt"}, where : {"collect_all_metrics"},
                 printed : {TRUE}]
           \cup [exc : {"KeyboardInterrupt"} \cup Unguarded,
                 where : {"collect_cpu_metrics", "collect_memory_metrics",
                          "collect_disk_metrics"},
                 printed : {TRUE}]
      [] p = "collect_processes" ->
           [exc : {"KeyboardInterrupt"}, where : {"collect_process_info"},
            printed : {TRUE}]
           \cup [exc : {"KeyboardInterrupt"} \cup Unguarded,
                 where : {"get_process_summary", "enumerate_processes"},
                 printed : {TRUE}]
      [] p = "collect_network" ->
           [exc : {"KeyboardInterrupt"},
            where : {"collect_network_info", "get_network_summary",
                     "collect_network_connections"},
            printed : {TRUE}]
           \cup [exc : {"KeyboardInterrupt"} \cup Unguarded,
                 where : {"collect_network_interfaces"}, printed : {TRUE}]
      [] OTHER -> {}

NoMetrics == [disk |-> EmptyDict]
NoProcesses ==
    [summary                 |-> [total_processes |-> 0, running |-> 0,
                                  sleeping |-> 0, stopped |-> 0, zombie |-> 0,
                                  other |-> 0],
     top_processes_by_memory |-> <<>>,
     top_processes_by_cpu    |-> <<>>]
NoNetwork ==
    [summary         |-> [total_connections |-> 0, by_status |-> EmptyDict,
                          by_protocol |-> EmptyDict, listening_ports |-> <<>>],
     interfaces      |-> EmptyDict,
     all_connections |-> <<>>]

\* what the run was given and what the OS holds do not change
Inputs ==
    <<top_n, include_all, format, console, procTable, procTableMem,
      procTableCpu, connFault, connTable, connTableAll, partitions>>

\* exc, raised in function where, outside the try of main() or inside it,
\* unwinds collect_all and run: the locals are gone, main() returns or the
\* exception leaves the program
Unwind(exc, where, outside) ==
    /\ pc' = "exit"
    /\ raised' = exc
    /\ traceback' = where
    /\ outside_try' = outside
    /\ \E second \in HandlerOutcomes(exc, outside, console) :
          /\ in_handler' = second
          /\ exit_code' = ProcessStatus(exc, where, outside, console, second)
    /\ metrics' = NoMetrics
    /\ processes' = NoProcesses
    /\ network' = NoNetwork

\* main() up to collector.run(): parse_arguments(),
\* HealthCollector.__init__ and HealthLogger.__init__
Construct ==
    /\ pc = "main"
    /\ \E o \in ConstructOutcomes :
          IF o.exc = "none"
          THEN /\ pc' = "collect_metrics"
               /\ format' = Lower(format)
               /\ UNCHANGED <<metrics, processes, network, raised, traceback, outside_try, in_handler, exit_code>>
          ELSE /\ Unwind(o.exc, o.where, o.outside)
               /\ UNCHANGED format
    /\ UNCHANGED <<top_n, include_all, console, procTable, procTableMem,
                   procTableCpu, connFault, connTable, connTableAll, partitions, stdout,
                   file>>

\* collect_all, first collector
CollectMetrics ==
    /\ pc = "collect_metrics"
    /\ stdout' = Append(stdout, "metrics")
    /\ IF DiskRaises(partitions) = "none"
       THEN /\ metrics' = collect_all_metrics(partitions)
            /\ pc' = AfterMetrics
            /\ UNCHANGED <<processes, network, raised, traceback, outside_try, in_handler, exit_code>>
       ELSE Unwind(DiskRaises(partitions), "collect_disk_metrics", FALSE)
    /\ UNCHANGED <<Inputs, file>>

\* collect_all, second collector
CollectProcesses ==
    /\ pc = "collect_processes"
    /\ stdout' = Append(stdout, "processes")
    /\ IF ProcessInfoRaises(procTable, procTableMem, procTableCpu) = "none"
       THEN /\ processes' = collect_process_info(procTable, procTableMem,
                                                 procTableCpu, top_n)
            /\ pc' = AfterProcesses
            /\ UNCHANGED <<metrics, network, raised, traceback, outside_try, in_handler, exit_code>>
       ELSE Unwind(ProcessInfoRaises(procTable, procTableMem, procTableCpu),
                   ProcessInfoRaisedIn(procTable), FALSE)
    /\ UNCHANGED <<Inputs, file>>

\* collect_all, third collector
CollectNetwork ==
    /\ pc = "collect_network"
    /\ stdout' = Append(stdout, "network")
    /\ IF NetworkInfoRaises(include_all, connFault, connTable, connTableAll)
          = "none"
       THEN /\ network' = collect_network_info(include_all, connFault,
                                               connTable, connTableAll)
            /\ pc' = AfterNetwork
            /\ UNCHANGED <<metrics, processes, raised, traceback, outside_try, in_handler, exit_code>>
       ELSE Unwind(NetworkInfoRaises(include_all, connFault, connTable,
                                     connTableAll),
                   "collect_network_connections", FALSE)
    /\ UNCHANGED <<Inputs, file>>

\* an interrupt, a print that raises, or a failure of a psutil call no
\* collector guards, while run() and collect_all print and collect;
\* enumerate_processes is reached only when get_process_summary has
\* returned, collect_network_interfaces only when get_network_summary has
Abort ==
    /\ pc \in {"collect_metrics", "collect_processes", "collect_network",
               "write_log"}
    /\ \E a \in AbortPoints(pc) :
          /\ a.exc = "BrokenPipeError" => console = "broken"
          /\ a.where = "enumerate_processes" =>
                Uncaught(procTable, SummaryHandlers, 1) = "none"
          /\ a.where = "collect_network_interfaces" =>
                ConnectionsRaises(connFault, connTable) = "none"
          /\ stdout' = IF a.printed THEN Append(stdout, PhaseOf(pc)) ELSE stdout
          /\ Unwind(a.exc, a.where, FALSE)
    /\ UNCHANGED <<Inputs, file>>

\* run()'s print and HealthLogger.write_log
WriteLog ==
    /\ pc = "write_log"
    /\ stdout' = Append(stdout, PhaseOf(pc))
    /\ \E o \in WriteOutcomesAfter(RenderRaises(format, processes)) :
          /\ file' = FileAfter(file, format, o)
          /\ IF o.exc = "none"
             THEN /\ pc' = AfterWrite
                  /\ UNCHANGED <<metrics, processes, network, raised,
                                 traceback, outside_try, in_handler, exit_code>>
             ELSE Unwind(o.exc, RaisedIn(o, format), FALSE)
    /\ UNCHANGED Inputs

\* the ways the rest of run() and of main() ends once write_log has
\* returned: main() returns 0, or one of the prints is interrupted or
\* raises on a broken stdout, or the interrupt comes once main() has left
\* its try, at sys.exit(main())
FinishOutcomes ==
    {[exc |-> "none", where |-> "", outside |-> FALSE]}
    \cup [exc : {"KeyboardInterrupt", "BrokenPipeError"}, where : {"run", "main"},
          outside : {FALSE}]
    \cup {[exc |-> "KeyboardInterrupt", where |-> "<module>", outside |-> TRUE]}

\* the rest of run() and of main() once write_log has returned: the
\* closing prints of run(), the summary of main(), return 0; an exception
\* at any of the prints reaches main()'s handlers with the report written
Finish ==
    /\ pc = "finish"
    /\ \E o \in FinishOutcomes :
          /\ o.exc = "BrokenPipeError" => console = "broken"
          /\ IF o.exc = "none"
             THEN /\ pc' = "exit"
                  /\ exit_code' = ProcessStatus("none", "", FALSE, console, "none")
                  /\ UNCHANGED <<metrics, processes, network, raised, traceback, outside_try, in_handler>>
             ELSE Unwind(o.exc, o.where, o.outside)
    /\ UNCHANGED <<Inputs, stdout, file>>

Next ==
    \/ Construct
    \/ CollectMetrics
    \/ CollectProcesses
    \/ CollectNetwork
    \/ Abort
    \/ WriteLog
    \/ Finish

\* ------------------------------------------------------ initial states
\* every sequence over S of length at most n
SeqsUpTo(S, n) == UNION {[1..k -> S] : k \in 0..n}

\* the run before main() starts
Start ==
    /\ pc = "main"
    /\ metrics = NoMetrics
    /\ processes = NoProcesses
    /\ network = NoNetwork
    /\ stdout = <<>>
    /\ raised = "none"
    /\ traceback = ""
    /\ outside_try = FALSE
    /\ in_handler = "none"
    /\ exit_code = NoExit

Proc(name, status, cpu, mem, fault) ==
    [name |-> name, status |-> status, cpu_percent |-> cpu, memory_percent |-> mem,
     fault |-> fault]

Conn(type, laddr, status, pid, fault) ==
    [type |-> type, laddr |-> laddr, status |-> status, pid |-> pid,
     fault |-> fault]

Part(mountpoint, fault) == [mountpoint |-> mountpoint, fault |-> fault]

\* a process whose read faults; its other fields are never read
Gone(fault) == Proc(NoName, "", None, None, fault)

\* a connection whose read faults
Broken(fault) == Conn(<<>>, <<>>, "", None, fault)

\* the OS tables stay as they are while the collectors run
Quiet ==
    /\ procTableMem = procTable
    /\ procTableCpu = procTable
    /\ connTableAll = connTable

\* small tables for the runs that vary the configuration and the failures
FewProcs ==
    {<<>>,
     <<Proc(<<"b">>, "running", 5, 1004, "none"), Gone("NoSuchProcess"),
       Proc(<<"a">>, "sleeping", None, 2006, "none")>>,
     <<Proc(NoName, "running", 5, 1004, "none")>>}
FewConns ==
    {<<>>,
     <<Conn(SOCK_STREAM, <<"0.0.0.0", 80>>, "LISTEN", 7, "none"),
       Conn(SOCK_DGRAM, <<>>, "NONE", None, "none"),
       Conn(SOCK_STREAM, <<"0.0.0.0", 22>>, "LISTEN", None, "none")>>}
FewParts ==
    {<<>>, <<Part("/", "none"), Part("/mnt", "PermissionError")>>}

\* the whole run: configuration, OS failures and write failures vary
Init ==
    /\ Start
    /\ console \in Consoles
    /\ top_n \in {None, 0, 1}
    /\ include_all \in BOOLEAN
    /\ format \in {"json", "text", "JSON", "Text", "yaml", "YAML"}
    /\ procTable \in FewProcs
    /\ connFault \in {"none", "AccessDenied", "OSError", "PermissionError"}
    /\ connTable \in FewConns
    /\ partitions \in FewParts
    /\ \E f \in {NoFile, OldFile(format)} : file = f
    /\ Quiet

Spec == Init /\ [][Next]_vars

\* the process tables that vary the statuses and the faults
StatusProcs ==
    {Proc(<<"a">>, s, None, None, "none") :
        s \in {"running", "sleeping", "stopped", "zombie", "idle"}}
    \cup {Gone(f) : f \in {"NoSuchProcess", "AccessDenied", "ZombieProcess"}}

InitProcStatus ==
    /\ Start
    /\ console = "writable"
    /\ top_n = MaxTopN
    /\ include_all = FALSE
    /\ format = "json"
    /\ procTable \in SeqsUpTo(StatusProcs, MaxProcs)
    /\ connFault = "none"
    /\ connTable = <<>>
    /\ partitions = <<>>
    /\ file = NoFile
    /\ Quiet

SpecProcStatus == InitProcStatus /\ [][Next]_vars

\* the process tables that vary the two sort keys: 1001 and 1004 round to
\* the same memory_percent, None and 0 are the same cpu_percent
RankProcs ==
    {Proc(<<"a">>, "running", c, m, "none") : c \in {None, 0, 5}, m \in {None, 1004, 1001, 1006}}
    \cup {Gone("NoSuchProcess")}

InitProcRank ==
    /\ Start
    /\ console = "writable"
    /\ top_n \in {None} \cup 0..MaxTopN
    /\ include_all = FALSE
    /\ format = "json"
    /\ procTable \in SeqsUpTo(RankProcs, MaxProcs)
    /\ connFault = "none"
    /\ connTable = <<>>
    /\ partitions = <<>>
    /\ file = NoFile
    /\ Quiet

SpecProcRank == InitProcRank /\ [][Next]_vars

\* the connection tables that vary status, local address and pid
ListenConns ==
    {Conn(SOCK_STREAM, l, s, p, "none") :
        l \in {<<>>, <<"0.0.0.0", 22>>, <<"0.0.0.0", 80>>},
        s \in {"LISTEN", "ESTABLISHED"},
        p \in {None, 7}}
    \cup {Broken("AttributeError")}

InitNetListen ==
    /\ Start
    /\ console = "writable"
    /\ top_n = MaxTopN
    /\ include_all \in BOOLEAN
    /\ format = "json"
    /\ procTable = <<>>
    /\ connFault = "none"
    /\ connTable \in SeqsUpTo(ListenConns, MaxConns)
    /\ partitions = <<>>
    /\ file = NoFile
    /\ Quiet

SpecNetListen == InitNetListen /\ [][Next]_vars

\* the connection tables that vary the type string
ProtoConns ==
    {Conn(t, <<"0.0.0.0", 80>>, "NONE", 7, "none") :
        t \in {SOCK_STREAM, SOCK_DGRAM, SOCK_RAW, INT_STREAM, INT_DGRAM,
               DGRAM_STREAM}}
    \cup {Broken("AccessDenied")}

InitNetProto ==
    /\ Start
    /\ console = "writable"
    /\ top_n = MaxTopN
    /\ include_all \in BOOLEAN
    /\ format = "json"
    /\ procTable = <<>>
    /\ connFault = "none"
    /\ connTable \in SeqsUpTo(ProtoConns, MaxConns)
    /\ partitions = <<>>
    /\ file = NoFile
    /\ Quiet

SpecNetProto == InitNetProto /\ [][Next]_vars

\* the partition lists that vary mountpoints and faults; a mountpoint may
\* be listed twice
DiskParts ==
    {Part(m, f) :
        m \in {"/", "/mnt", "/boot"},
        f \in {"none", "PermissionError", "FileNotFoundError"}}

InitDisk ==
    /\ Start
    /\ console = "writable"
    /\ top_n = MaxTopN
    /\ include_all = FALSE
    /\ format = "json"
    /\ procTable = <<>>
    /\ connFault = "none"
    /\ connTable = <<>>
    /\ partitions \in SeqsUpTo(DiskParts, MaxParts)
    /\ file = NoFile
    /\ Quiet

SpecDisk == InitDisk /\ [][Next]_vars

\* what a later psutil.process_iter may yield when an earlier one yielded
\* table: the same, or one process has exited (its pid yields no record),
\* or one process has started (a new pid, after the others)
LaterProcs(table) ==
    {table}
    \cup {[table EXCEPT ![i] = Gone("NoSuchProcess")] : i \in 1..Len(table)}
    \cup {Append(table, Proc(<<"c">>, "running", 0, 1001, "none"))}

\* the process tables of the runs during which processes start and exit
ChurnProcs ==
    {Proc(<<"a">>, "running", 5, 1004, "none"),
     Proc(<<"b">>, "sleeping", 0, 1006, "none")}

InitProcChurn ==
    /\ Start
    /\ console = "writable"
    /\ top_n \in {None, MaxTopN}
    /\ include_all = FALSE
    /\ format = "json"
    /\ procTable \in SeqsUpTo(ChurnProcs, MaxProcs)
    /\ procTableMem \in LaterProcs(procTable)
    /\ procTableCpu \in LaterProcs(procTableMem)
    /\ connFault = "none"
    /\ connTable = <<>>
    /\ connTableAll = <<>>
    /\ partitions = <<>>
    /\ file = NoFile

SpecProcChurn == InitProcChurn /\ [][Next]_vars

\* table without its i-th entry
RemoveAt(table, i) == SubSeq(table, 1, i - 1) \o SubSeq(table, i + 1, Len(table))

\* what a later psutil.net_connections may return when an earlier one
\* returned table: the same, or one connection has closed, or one has opened
LaterConns(table) ==
    {table}
    \cup {RemoveAt(table, i) : i \in 1..Len(table)}
    \cup {Append(table, Conn(SOCK_STREAM, <<"0.0.0.0", 443>>, "LISTEN", 9, "none"))}

\* the connection tables of the runs during which connections open and close
ChurnConns ==
    {Conn(SOCK_STREAM, <<"0.0.0.0", 80>>, "LISTEN", 7, "none"),
     Conn(SOCK_STREAM, <<"10.0.0.1", 22>>, "ESTABLISHED", None, "none")}

InitNetChurn ==
    /\ Start
    /\ console = "writable"
    /\ top_n = MaxTopN
    /\ include_all \in BOOLEAN
    /\ format = "json"
    /\ procTable = <<>>
    /\ procTableMem = <<>>
    /\ procTableCpu = <<>>
    /\ connFault = "none"
    /\ connTable \in SeqsUpTo(ChurnConns, MaxConns)
    /\ connTableAll \in LaterConns(connTable)
    /\ partitions = <<>>
    /\ file = NoFile

SpecNetChurn == InitNetChurn /\ [][Next]_vars

\* ================================================================ claims
\* which locals of collect_all hold a collector's result
MetricsCollected ==
    pc \in {"collect_processes", "collect_network", "write_log"}
    \/ (pc = "exit" /\ raised = "none")
ProcessesCollected ==
    pc \in {"collect_network", "write_log"} \/ (pc = "exit" /\ raised = "none")
NetworkCollected == pc = "write_log" \/ (pc = "exit" /\ raised = "none")

\* the positions of the process table whose read does not fault
Survivors == {i \in 1..Len(procTable) : procTable[i].fault = "none"}

ByMemory == processes.top_processes_by_memory
ByCpu == processes.top_processes_by_cpu

\* C1: for every top_n >= 0, zero included, both ranking lists have length
\* min(top_n, number of processes that survived the read).
C1_LengthIsMinTopN ==
    (ProcessesCollected /\ top_n # None) =>
        /\ Len(ByMemory) = Min(top_n, Cardinality(Survivors))
        /\ Len(ByCpu) = Min(top_n, Cardinality(Survivors))

\* C4: every process read without fault increments exactly one of the five
\* buckets, an unknown status the bucket other; a faulting read increments
\* none and does not end the enumeration; total_processes is the sum of the
\* buckets and the number of processes read.
KnownStatuses == {"running", "sleeping", "stopped", "zombie"}
WithStatus(status) == {i \in Survivors : procTable[i].status = status}
C4_BucketsPartitionSurvivors ==
    /\ Uncaught(procTable, SummaryHandlers, 1) = "none"
    /\ ProcessesCollected =>
        LET sm == processes.summary
        IN  /\ sm.running = Cardinality(WithStatus("running"))
            /\ sm.sleeping = Cardinality(WithStatus("sleeping"))
            /\ sm.stopped = Cardinality(WithStatus("stopped"))
            /\ sm.zombie = Cardinality(WithStatus("zombie"))
            /\ sm.other = Cardinality(
                   {i \in Survivors : procTable[i].status \notin KnownStatuses})
            /\ sm.total_processes =
                   sm.running + sm.sleeping + sm.stopped + sm.zombie + sm.other
            /\ sm.total_processes = Cardinality(Survivors)

\* a table with a fault ahead of a known and an unknown status, summarised
C4_Witness ==
    /\ ProcessesCollected
    /\ Len(procTable) = 3
    /\ procTable[1].fault = "AccessDenied"
    /\ procTable[2].fault = "none" /\ procTable[2].status = "idle"
    /\ procTable[3].fault = "none" /\ procTable[3].status = "zombie"
    /\ processes.summary.total_processes = 2

\* C5: each ranking list is sorted non-increasing by its key and records with
\* equal keys keep their enumeration order (pid order), whether or not the
\* list was truncated; what truncation drops ranks after everything kept.
RankedBefore(x, y, key) ==
    x[key] > y[key] \/ (x[key] = y[key] /\ x.pid < y.pid)
StableDescending(list, key) ==
    \A i, j \in 1..Len(list) : i < j => RankedBefore(list[i], list[j], key)
TopOfSurvivors(list, key) ==
    /\ \A i \in 1..Len(list) : list[i].pid \in Survivors
    /\ \A p \in Survivors :
          (\A i \in 1..Len(list) : list[i].pid # p) =>
              \A i \in 1..Len(list) :
                  RankedBefore(list[i], ProcRecord(p, procTable[p]), key)
C5_SortedStable ==
    ProcessesCollected =>
        /\ StableDescending(ByMemory, "memory_percent")
        /\ StableDescending(ByCpu, "cpu_percent")
        /\ TopOfSurvivors(ByMemory, "memory_percent")
        /\ TopOfSurvivors(ByCpu, "cpu_percent")

\* three processes, the last two tied on the rounded memory_percent and all
\* tied on cpu_percent, truncated to two
C5_Witness ==
    /\ ProcessesCollected
    /\ top_n = 2
    /\ Len(procTable) = 3
    /\ Survivors = {1, 2, 3}
    /\ procTable[1].memory_percent = None
    /\ procTable[2].memory_percent = 1004
    /\ procTable[3].memory_percent = 1001
    /\ procTable[1].cpu_percent = None /\ procTable[2].cpu_percent = 0
    /\ procTable[3].cpu_percent = 0
    /\ ByMemory[1].pid = 2 /\ ByMemory[2].pid = 3
    /\ ByCpu[1].pid = 1 /\ ByCpu[2].pid = 2

\* the positions of the connection table that collect_network_connections
\* returns a record for
Enumerated ==
    IF connFault # "none" THEN {}
    ELSE {i \in 1..Len(connTable) : connTable[i].fault = "none"}

Listening == network.summary.listening_ports

\* the entry of listening_ports for the connection at position i, from what
\* the OS reported
EntryOf(i) ==
    [port    |-> connTable[i].laddr[2],
     address |-> connTable[i].laddr[1],
     pid     |-> IF connTable[i].pid \in {None, 0} THEN NA ELSE connTable[i].pid]

\* C3 as claimed: listening_ports has one entry for every enumerated
\* connection whose status is LISTEN and none for any other.
C3_OneEntryPerListen ==
    NetworkCollected =>
        Len(Listening) =
            Cardinality({i \in Enumerated : connTable[i].status = "LISTEN"})

\* C3 as amended: listening_ports has exactly one entry {port, address, pid}
\* for every enumerated connection whose status is LISTEN and whose local
\* port is known (its local address is set), and none for any other.
ListenWithPort ==
    {i \in Enumerated :
        connTable[i].status = "LISTEN" /\ connTable[i].laddr # <<>>}
C3_OneEntryPerListenWithPort ==
    NetworkCollected =>
        /\ Len(Listening) = Cardinality(ListenWithPort)
        /\ \A k \in 1..Len(Listening) :
              Cardinality({j \in 1..Len(Listening) : Listening[j] = Listening[k]})
              = Cardinality({i \in ListenWithPort : EntryOf(i) = Listening[k]})

\* a LISTEN connection with no local address beside one with a port and an
\* ESTABLISHED one
C3_Witness ==
    /\ NetworkCollected
    /\ Len(connTable) = 3
    /\ Enumerated = {1, 2, 3}
    /\ connTable[1].status = "LISTEN" /\ connTable[1].laddr = <<>>
    /\ connTable[2].status = "LISTEN" /\ connTable[2].laddr # <<>>
    /\ connTable[3].status = "ESTABLISHED" /\ connTable[3].laddr # <<>>
    /\ Len(Listening) = 1

\* the entries of the enumerated LISTEN connections at port p among the
\* first n connections, in enumeration order
RECURSIVE ListenersAt(_, _)
ListenersAt(p, n) ==
    IF n = 0 THEN <<>>
    ELSE IF n \in ListenWithPort /\ connTable[n].laddr[2] = p
         THEN Append(ListenersAt(p, n - 1), EntryOf(n))
         ELSE ListenersAt(p, n - 1)

\* the entries of list[1..n] at port p, in order
RECURSIVE EntriesAt(_, _, _)
EntriesAt(list, p, n) ==
    IF n = 0 THEN <<>>
    ELSE IF list[n].port = p
         THEN Append(EntriesAt(list, p, n - 1), list[n])
         ELSE EntriesAt(list, p, n - 1)

\* C6: listening_ports is sorted ascending by port, and the entries of one
\* port are in the order in which their connections were enumerated.
C6_PortsAscendingStable ==
    NetworkCollected =>
        /\ \A i, j \in 1..Len(Listening) :
              i < j => Listening[i].port <= Listening[j].port
        /\ \A p \in {Listening[k].port : k \in 1..Len(Listening)} :
              EntriesAt(Listening, p, Len(Listening))
              = ListenersAt(p, Len(connTable))

\* port 80 twice with different pids around port 22
C6_Witness ==
    /\ NetworkCollected
    /\ Len(connTable) = 3
    /\ ListenWithPort = {1, 2, 3}
    /\ connTable[1].laddr[2] = 80 /\ connTable[1].pid = 7
    /\ connTable[2].laddr[2] = 22
    /\ connTable[3].laddr[2] = 80 /\ connTable[3].pid = None
    /\ Listening[1].port = 22
    /\ Listening[2] = [port |-> 80, address |-> "0.0.0.0", pid |-> 7]
    /\ Listening[3] = [port |-> 80, address |-> "0.0.0.0", pid |-> NA]

\* the summary of no connection at all
ZeroSummary ==
    [total_connections |-> 0, by_status |-> EmptyDict,
     by_protocol |-> EmptyDict, listening_ports |-> <<>>]

\* C7: when the OS refuses the enumeration with access denied, the failure
\* does not reach main(), the summary is the summary of zero connections,
\* the interfaces are collected all the same, and a run that ends without
\* an exception has written its report.
C7_DeniedIsEmpty ==
    /\ traceback # "collect_network_connections" \/ raised # "AccessDenied"
    /\ (NetworkCollected /\ connFault = "AccessDenied") =>
          /\ network.summary = ZeroSummary
          /\ network.all_connections = <<>>
          /\ DOMAIN network.interfaces = IfAddrs
    /\ (NetworkCollected /\ connFault = "none" /\ connTable = <<>>) =>
          network.summary = ZeroSummary
    /\ (pc = "exit" /\ raised = "none") =>
          (exit_code \in {0, 120} /\ file.state = "complete")

\* the OS holds connections, refuses to list them, and the run succeeds
C7_Witness ==
    /\ pc = "exit"
    /\ exit_code = 0
    /\ connFault = "AccessDenied"
    /\ connTable # <<>>
    /\ include_all
    /\ network.summary = ZeroSummary
    /\ file.state = "complete"

\* C8: the keys of the disk map are exactly the mountpoints with a usage
\* read that succeeded, wherever they stand in the list; a mountpoint whose
\* every read faulted is absent; no partition fault ends the snapshot.
ReadOk == {i \in 1..Len(partitions) : partitions[i].fault = "none"}
C8_DiskKeysAreReadable ==
    /\ DiskRaises(partitions) = "none"
    /\ MetricsCollected =>
          /\ DOMAIN metrics.disk = {partitions[i].mountpoint : i \in ReadOk}
          /\ \A i \in 1..Len(partitions) :
                (\A j \in 1..Len(partitions) :
                    partitions[j].mountpoint = partitions[i].mountpoint
                    => partitions[j].fault # "none")
                => partitions[i].mountpoint \notin DOMAIN metrics.disk

\* a readable mountpoint between two faulting ones
C8_Witness ==
    /\ MetricsCollected
    /\ Len(partitions) = 3
    /\ partitions[1] = Part("/", "PermissionError")
    /\ partitions[2] = Part("/mnt", "none")
    /\ partitions[3] = Part("/boot", "FileNotFoundError")
    /\ DOMAIN metrics.disk = {"/mnt"}

\* C2 as claimed: the file at the path is never left empty or truncated; it
\* holds the complete report or what it held before.
C2_NeverPartialFile == file.state \in {"absent", "old", "complete"}

\* C9: the collectors run in the order metrics, processes, network; the
\* file is touched only after all three returned; a run that an interrupt
\* or a failure ends during collection leaves the file as it was.
Phases == <<"metrics", "processes", "network", "write">>
DuringCollection ==
    {"collect_all", "collect_all_metrics", "collect_cpu_metrics",
     "collect_memory_metrics", "collect_disk_metrics",
     "collect_process_info", "get_process_summary", "enumerate_processes",
     "collect_network_info", "get_network_summary",
     "collect_network_connections", "collect_network_interfaces"}
C9_OrderAndNoEarlyFile ==
    /\ Len(stdout) <= Len(Phases)
    /\ stdout = SubSeq(Phases, 1, Len(stdout))
    /\ pc = "write_log" => stdout = SubSeq(Phases, 1, 3)
    /\ file.state \notin {"absent", "old"} => stdout = Phases
    /\ (pc = "exit" /\ traceback \in DuringCollection) =>
          (file.state \in {"absent", "old"} /\ raised # "none")
    /\ (pc = "exit" /\ Len(stdout) < Len(Phases)) =>
          file.state \in {"absent", "old"}
    /\ (pc \in {"collect_metrics", "collect_processes", "collect_network",
                "write_log"}) => file.state \in {"absent", "old"}

\* an interrupt after two collectors ends the run with code 130, no file
C9_Witness ==
    /\ pc = "exit"
    /\ raised = "KeyboardInterrupt"
    /\ traceback = "collect_all"
    /\ exit_code = 130
    /\ stdout = <<"metrics", "processes">>
    /\ file = NoFile

\* what by_protocol holds for a key, 0 when the key is absent
CountOf(d, k) == IF k \in DOMAIN d THEN d[k] ELSE 0

\* the type strings of the model that hold "STREAM", and "DGRAM"
HoldStream == {SOCK_STREAM, DGRAM_STREAM}
HoldDgram == {SOCK_DGRAM, DGRAM_STREAM}

\* C10: by_protocol counts a connection under TCP iff its type string holds
\* "STREAM", under UDP iff it holds "DGRAM" and not "STREAM", under nothing
\* otherwise; total_connections counts every connection; so TCP + UDP <=
\* total_connections, with equality exactly when every type string holds one
\* of the two.
C10_ProtocolCounts ==
    NetworkCollected =>
        LET sm  == network.summary
            tcp == CountOf(sm.by_protocol, "TCP")
            udp == CountOf(sm.by_protocol, "UDP")
        IN  /\ DOMAIN sm.by_protocol \subseteq {"TCP", "UDP"}
            /\ \A k \in DOMAIN sm.by_protocol : sm.by_protocol[k] > 0
            /\ tcp = Cardinality(
                   {i \in Enumerated : connTable[i].type \in HoldStream})
            /\ udp = Cardinality(
                   {i \in Enumerated :
                       connTable[i].type \in HoldDgram \ HoldStream})
            /\ sm.total_connections = Cardinality(Enumerated)
            /\ tcp + udp <= sm.total_connections
            /\ (tcp + udp = sm.total_connections) <=>
                   (\A i \in Enumerated :
                       connTable[i].type \in HoldStream \cup HoldDgram)

\* a type with both needles, a numeric type and a datagram type
C10_Witness ==
    /\ NetworkCollected
    /\ Len(connTable) = 3
    /\ connTable[1].type = DGRAM_STREAM
    /\ connTable[2].type = INT_STREAM
    /\ connTable[3].type = SOCK_DGRAM
    /\ network.summary.by_protocol = ("TCP" :> 1) @@ ("UDP" :> 1)
    /\ network.summary.total_connections = 3

\* the file at the path was opened by this run
WrittenByRun == file.state \in {"empty", "truncated", "complete"}

\* C11: whatever format string the logger was given, the file is named
\* .json exactly when write_log took the JSON serializer and .log exactly
\* when it took the text serializer; both follow the lower-cased format.
C11_ExtensionMatchesSerializer ==
    WrittenByRun =>
        /\ file.ext \in {"json", "log"}
        /\ file.serializer \in {"format_json", "format_text"}
        /\ file.ext = "json" <=> file.serializer = "format_json"
        /\ file.ext = "log" <=> file.serializer = "format_text"
        /\ file.serializer = "format_json" <=> format = "json"

\* a format that is neither json nor text, written as text into a .log file
C11_Witness ==
    /\ file.state = "complete"
    /\ format = "yaml"
    /\ file.ext = "log"
    /\ file.serializer = "format_text"

\* C12 as claimed: the process ends with 0 when the run succeeds, 130 when
\* it is interrupted, 1 on any other failure, wherever in main() it arises,
\* and with no other code.
C12_ExitCodes ==
    pc = "exit" =>
        /\ exit_code \in {0, 1, 130}
        /\ raised = "none" => exit_code = 0
        /\ raised = "KeyboardInterrupt" => exit_code = 130
        /\ raised \notin {"none", "KeyboardInterrupt"} => exit_code = 1

\* C12 as amended.  An interrupt that main() does not catch, because it
\* comes outside the try of main() (at module level or on entry of main())
\* or inside one of main()'s except clauses, ends the process killed by
\* SIGINT, and nothing else does.  A rejected command line ends with
\* argparse's 2, and nothing else does.  Any other exception raised outside
\* the try ends with 1.  Otherwise: with a stdout that can be written, 0
\* when the run succeeds or argparse printed the help or the version, 130
\* on an interrupt, 1 on any other failure; with a buffered stdout that
\* cannot be written, 120 whenever something was printed to it and what was
\* just said when nothing was; with an unbuffered stdout that breaks, the
\* same as with a writable one, a failing print being a failure like any
\* other, except that an interrupt ends with 1 when the print of the
\* interrupt clause itself fails.
Uncaught_KeyboardInterrupt ==
    \/ raised = "KeyboardInterrupt" /\ outside_try
    \/ in_handler = "KeyboardInterrupt"
NothingPrinted ==
    \/ raised = "SystemExit(2)"
    \/ raised \in {"PermissionError", "OSError"}
       /\ traceback = "HealthLogger.__init__"
    \/ outside_try
C12_ExitCodesButArgparse ==
    pc = "exit" =>
        /\ exit_code \in {0, 1, 2, 120, 130, KilledBySigint}
        /\ raised = "none" => file.state = "complete"
        /\ outside_try =>
              /\ raised \in {"KeyboardInterrupt", "RuntimeError"}
              /\ in_handler = "none"
              /\ traceback \in {"<module>", "main"}
        /\ traceback = "<module>" => outside_try
        /\ exit_code = KilledBySigint <=> Uncaught_KeyboardInterrupt
        /\ exit_code = 2 <=> raised = "SystemExit(2)"
        /\ exit_code = 120 <=>
              (console = "full" /\ ~Uncaught_KeyboardInterrupt /\ ~NothingPrinted)
        /\ exit_code = 0 <=>
              (raised \in {"none", "SystemExit(0)"} /\ console # "full")
        /\ exit_code = 130 <=>
              /\ raised = "KeyboardInterrupt"
              /\ console # "full"
              /\ ~outside_try
              /\ in_handler = "none"
        /\ in_handler = "BrokenPipeError" =>
              (console = "broken" /\ raised = "KeyboardInterrupt" /\ exit_code = 1)
        /\ exit_code = 1 <=>
              /\ ~Uncaught_KeyboardInterrupt
              /\ \/ in_handler = "BrokenPipeError"
                 \/ /\ raised \notin {"none", "KeyboardInterrupt",
                                      "SystemExit(0)", "SystemExit(2)"}
                    /\ (console # "full" \/ NothingPrinted)

\* the report is written, a print of main()'s summary is interrupted, and a
\* second interrupt comes while the interrupt clause runs: on a stdout that
\* cannot be written the process still ends killed by SIGINT, not with 120
C12_Witness ==
    /\ pc = "exit"
    /\ raised = "KeyboardInterrupt"
    /\ traceback = "main"
    /\ ~outside_try
    /\ in_handler = "KeyboardInterrupt"
    /\ console = "full"
    /\ exit_code = KilledBySigint
    /\ WrittenByRun

\* C13: with include_all_connections the network report agrees with
\* itself even when connections open or close while it is collected: the
\* summary counts as many connections as all_connections lists, and every
\* listening_ports entry is the entry of a LISTEN record of all_connections.
C13_SummaryMatchesAllConnections ==
    (NetworkCollected /\ include_all) =>
        /\ network.summary.total_connections = Len(network.all_connections)
        /\ \A i \in 1..Len(Listening) :
              \E j \in 1..Len(network.all_connections) :
                  /\ network.all_connections[j].status = "LISTEN"
                  /\ ListenEntry(network.all_connections[j]) = Listening[i]

\* C14: the process report agrees with itself even when processes start or
\* exit while it is collected: without truncation the two rankings hold the
\* same pids, and neither ranking is longer than the summary's total.
C14_RankingsMatchSummary ==
    ProcessesCollected =>
        /\ top_n = None =>
              {ByMemory[i].pid : i \in 1..Len(ByMemory)}
              = {ByCpu[i].pid : i \in 1..Len(ByCpu)}
        /\ Len(ByMemory) <= processes.summary.total_processes
        /\ Len(ByCpu) <= processes.summary.total_processes

====
